---------------------------- MODULE Spec2Model ----------------------------
(***************************************************************************)
(* A model of CreateChangelog.py: the script reads the commits of the      *)
(* current branch newest first, labels each with a version taken from the  *)
(* git tags, classifies it by the first word of its message, groups        *)
(* adjacent commits of one version and writes the groups to a text file.   *)
(*                                                                         *)
(* A Python str is a sequence of one-character strings; None is the        *)
(* record None; a dict is a function on its keys.                          *)
(***************************************************************************)
EXTENDS Integers, Sequences, FiniteSets, TLC

VARIABLES
    history,            \* the branch's commits, newest first (repo.iter_commits)
    repoTags,           \* repo.tags, in the order git lists them (by name)
    branchName,         \* repo.active_branch.name
    args,               \* the parsed command line
    outFile,            \* the file args.output: whether it exists, and the writes it holds
    cacheFile,          \* the file named CACHE, likewise
    stdout,             \* what the script printed in this run
    pc,                 \* the script's position
    fcommits,           \* the scanned commits
    tagmap,             \* global tagmap: hexsha -> tag
    current_tag,        \* global current_tag
    changeLogMessages,  \* the list of groups
    next_commit,        \* the position of the for loop over fcommits
    exit_code,          \* the process's exit status: {} while it runs, then {0} or {1}
    opened,             \* whether this run has opened the output file for writing
    run                 \* 1 for the first invocation, 2 for a second one

vars == <<history, repoTags, branchName, args, outFile, cacheFile, stdout, pc, fcommits,
          tagmap, current_tag, changeLogMessages, next_commit, exit_code,
          opened, run>>

None == [none |-> TRUE]
NoFile == [exists |-> FALSE, writes |-> <<>>]
File(writes) == [exists |-> TRUE, writes |-> writes]

---------------------------------------------------------------------------
(* Strings *)

Whitespace == {" ", "\t", "\n"}

UpperToLower ==
    "A" :> "a" @@ "B" :> "b" @@ "C" :> "c" @@ "D" :> "d" @@ "E" :> "e" @@
    "F" :> "f" @@ "G" :> "g" @@ "H" :> "h" @@ "I" :> "i" @@ "J" :> "j" @@
    "K" :> "k" @@ "L" :> "l" @@ "M" :> "m" @@ "N" :> "n" @@ "O" :> "o" @@
    "P" :> "p" @@ "Q" :> "q" @@ "R" :> "r" @@ "S" :> "s" @@ "T" :> "t" @@
    "U" :> "u" @@ "V" :> "v" @@ "W" :> "w" @@ "X" :> "x" @@ "Y" :> "y" @@
    "Z" :> "z"

\* str.lower()
Lower(s) ==
    [k \in 1..Len(s) |->
        IF s[k] \in DOMAIN UpperToLower THEN UpperToLower[s[k]] ELSE s[k]]

MinOf(S) == CHOOSE x \in S : \A y \in S : x <= y
MaxOf(S) == CHOOSE x \in S : \A y \in S : x >= y

\* str.rstrip() and str.lstrip() with no argument: whitespace is removed
RStrip(s) ==
    LET keep == {k \in 1..Len(s) : s[k] \notin Whitespace}
    IN  IF keep = {} THEN <<>> ELSE SubSeq(s, 1, MaxOf(keep))

LStrip(s) ==
    LET keep == {k \in 1..Len(s) : s[k] \notin Whitespace}
    IN  IF keep = {} THEN <<>> ELSE SubSeq(s, MinOf(keep), Len(s))

\* str.find(sub): the lowest 0-based index where sub occurs in s, or -1
Find(s, sub) ==
    LET at == {k \in 0..(Len(s) - Len(sub)) : SubSeq(s, k + 1, k + Len(sub)) = sub}
    IN  IF at = {} THEN -1 ELSE MinOf(at)

Rep(c, n) == [k \in 1..n |-> c]

Digit == <<"0", "1", "2", "3", "4", "5", "6", "7", "8", "9">>

\* "{}".format(n) of a natural number: its decimal digits, no padding
RECURSIVE Decimal(_)
Decimal(n) ==
    IF n < 10 THEN <<Digit[n + 1]>>
    ELSE Decimal(n \div 10) \o <<Digit[(n % 10) + 1]>>

s_add == <<"a", "d", "d">>
s_remove == <<"r", "e", "m", "o", "v", "e">>
s_delete == <<"d", "e", "l", "e", "t", "e">>
s_fix == <<"f", "i", "x">>
s_bugfix == <<"b", "u", "g", "f", "i", "x">>
s_change == <<"c", "h", "a", "n", "g", "e">>
s_update == <<"u", "p", "d", "a", "t", "e">>
s_deprecate == <<"d", "e", "p", "r", "e", "c", "a", "t", "e">>
s_improve == <<"i", "m", "p", "r", "o", "v", "e">>

---------------------------------------------------------------------------
(* class COMMIT_TYPE and class ChangeLogMsg *)

COMMIT_TYPE ==
    {"UNCATEGORIZED", "ADDED", "REMOVED", "FIXED", "CHANGED", "DEPRECATED",
     "IMPROVED"}

\* ChangeLogMsg._setType: the type of an entry whose (stripped) message is msg
SetType_CaseSensitive(msg) ==
    IF Find(msg, s_add) = 0 THEN "ADDED"
    ELSE IF Find(msg, s_remove) = 0 \/ Find(msg, s_delete) = 0 THEN "REMOVED"
    ELSE IF Find(msg, s_fix) = 0 \/ Find(msg, s_bugfix) = 0 THEN "FIXED"
    ELSE IF Find(msg, s_change) = 0 \/ Find(msg, s_update) = 0 THEN "CHANGED"
    ELSE IF Find(msg, s_deprecate) = 0 THEN "DEPRECATED"
    ELSE IF Find(msg, s_improve) = 0 THEN "IMPROVED"
    ELSE "UNCATEGORIZED"

SetType(self_msg) ==
    LET msg == Lower(self_msg)
    IN  IF Find(msg, s_add) = 0 THEN "ADDED"
        ELSE IF Find(msg, s_remove) = 0 \/ Find(msg, s_delete) = 0 THEN "REMOVED"
        ELSE IF Find(msg, s_fix) = 0 \/ Find(msg, s_bugfix) = 0 THEN "FIXED"
        ELSE IF Find(msg, s_change) = 0 \/ Find(msg, s_update) = 0 THEN "CHANGED"
        ELSE IF Find(msg, s_deprecate) = 0 THEN "DEPRECATED"
        ELSE IF Find(msg, s_improve) = 0 THEN "IMPROVED"
        ELSE "UNCATEGORIZED"

\* ChangeLogMsg._setDate: time.gmtime of the commit date, as "year/month/day".
\* The commit dates of the model lie in January 1970.
SetDate(committed_date) ==
    Decimal(1970) \o <<"/">> \o Decimal(1) \o <<"/">>
        \o Decimal(1 + (committed_date \div 86400))

\* commit.hexsha[0:8]
Signature(hexsha) == SubSeq(hexsha, 1, IF Len(hexsha) < 8 THEN Len(hexsha) ELSE 8)

\* ChangeLogMsg._versionParseFallback, a method nothing calls:
\* re.search("(.*)\s(\(v.*\))", msg) on a one-line message. Both .* are greedy:
\* the split is at the last whitespace followed by "(v" that still has a ")"
\* after it, and the marker runs to the last ")". The result is the pair of
\* self.msg and self.version, or None when the pattern does not match.
VersionParseFallback(commitMsg) ==
    LET n == Len(commitMsg)
        splits == {k \in 1..(n - 3) :
                      /\ commitMsg[k] \in Whitespace
                      /\ commitMsg[k + 1] = "("
                      /\ commitMsg[k + 2] = "v"
                      /\ \E j \in (k + 3)..n : commitMsg[j] = ")"}
    IN  IF splits = {} THEN None
        ELSE LET k == MaxOf(splits)
                 j == MaxOf({q \in (k + 3)..n : commitMsg[q] = ")"})
                 v == LStrip(RStrip(SubSeq(commitMsg, k + 1, j)))
             IN  [msg |-> SubSeq(commitMsg, 1, k - 1),
                  version |-> SubSeq(v, 3, Len(v) - 1)]

\* get_tag: the value it returns, and the current_tag it leaves
get_tag(tm, hexsha) == IF hexsha \in DOMAIN tm THEN tm[hexsha] ELSE None

get_tag_current_Unset(tm, cur, hexsha) == cur

get_tag_current_Once(tm, cur, hexsha) ==
    IF cur # None THEN cur
    ELSE IF get_tag(tm, hexsha) # None THEN get_tag(tm, hexsha) ELSE cur

get_tag_current(tm, cur, hexsha) ==
    IF get_tag(tm, hexsha) # None THEN get_tag(tm, hexsha) ELSE cur

\* ChangeLogMsg._setVersion: the tag whose name becomes self.version (None
\* makes tag.name raise). cur is current_tag as get_tag has left it.
SetVersionTag(tm, cur, hexsha) ==
    IF get_tag(tm, hexsha) = None THEN cur ELSE get_tag(tm, hexsha)

\* ChangeLogMsg.__init__, for the commit at position id of fcommits: the
\* object made, or None when tag.name raises AttributeError in _setVersion.
ChangeLogMsg(commit, id, tm, cur) ==
    LET msg == LStrip(RStrip(commit.message))
        tag == SetVersionTag(tm, cur, commit.hexsha)
    IN  IF tag = None THEN None
        ELSE [id        |-> id,
              type      |-> SetType(msg),
              version   |-> tag.name,
              date      |-> SetDate(commit.committed_date),
              signature |-> Signature(commit.hexsha),
              msg       |-> msg]

---------------------------------------------------------------------------
(* The repository and the command line the script is run on *)

MaxCommits == 3

MsgFixNull ==
    <<"F", "i", "x", " ", "n", "u", "l", "l", " ", "p", "o", "i", "n", "t",
      "e", "r", " ", "b", "u", "g", " ", "(", "v", "1", ".", "2", ".", "3", ")">>
MsgUpdateDocs == <<"U", "p", "d", "a", "t", "e", " ", "d", "o", "c", "s">>
MsgMisc == <<" ", " ", "m", "i", "s", "c", " ", "n", "o", "t", "e", "s", "\n">>
MsgUpdateReadme ==
    <<"u", "p", "d", "a", "t", "e", " ", "r", "e", "a", "d", "m", "e", "\n",
      "\n", "n", "e", "w", " ", "u", "r", "l", "\n">>

\* Two of the hashes share their first eight characters.
HexA1 == Rep("a", 8) \o Rep("1", 32)
HexA2 == Rep("a", 8) \o Rep("2", 32)
HexB == Rep("b", 40)
HexC == Rep("c", 40)

CommitPool ==
    {[hexsha |-> HexA1, message |-> MsgFixNull, committed_date |-> 2 * 86400],
     [hexsha |-> HexB, message |-> MsgUpdateDocs, committed_date |-> 86400 + 3600],
     [hexsha |-> HexA2, message |-> MsgMisc, committed_date |-> 86400],
     [hexsha |-> HexC, message |-> MsgUpdateReadme, committed_date |-> 0]}

V10 == <<"v", "1", ".", "0">>
V20 == <<"v", "2", ".", "0">>
TagNames == <<V10, V20>>

Injective(q) == \A a, b \in 1..Len(q) : a # b => q[a] # q[b]

Histories ==
    UNION {{q \in [1..n -> CommitPool] : Injective(q)} : n \in 1..MaxCommits}

\* The tags of a repository with n commits: each name is absent (0) or names
\* one commit; the list is in name order.
RECURSIVE TagList(_, _)
TagList(place, k) ==
    IF k > Len(TagNames) THEN <<>>
    ELSE (IF place[k] = 0 THEN <<>>
          ELSE <<[name |-> TagNames[k], commit |-> place[k]]>>)
         \o TagList(place, k + 1)

TagLists(n) == {TagList(place, 1) : place \in [1..Len(TagNames) -> 0..n]}

\* args.max as the set of its values: {} when --max is not given
MaxArgs == {{}, {0}, {2}}

ArgsSet ==
    [max : MaxArgs, detailed : BOOLEAN, no_group : BOOLEAN, verbose : BOOLEAN]

BranchNames == {"master", "topic"}

OldContent == File(<<[kind |-> "old"]>>)

ProcessInit ==
    /\ stdout = <<>>
    /\ pc = "read"
    /\ fcommits = <<>>
    /\ tagmap = [h \in {} |-> None]
    /\ current_tag = None
    /\ changeLogMessages = <<>>
    /\ next_commit = 1
    /\ exit_code = {}
    /\ opened = FALSE

Init ==
    /\ history \in Histories
    /\ repoTags \in TagLists(Len(history))
    /\ branchName \in BranchNames
    /\ args \in ArgsSet
    /\ outFile \in {NoFile, OldContent}
    /\ cacheFile = NoFile
    /\ run = 1
    /\ ProcessInit

---------------------------------------------------------------------------
(* __main__ *)

Take(q, n) == SubSeq(q, 1, IF n < Len(q) THEN n ELSE Len(q))

Warning(name) ==
    [text |-> "warning: current branch is {}, not MASTER", name |-> name]

\* lines 147-155: the warning, then the commits: if args.max is given and is
\* not 0, at most that many
ReadCommits ==
    /\ pc = "read"
    /\ stdout' = IF branchName # "master"
                 THEN Append(stdout, Warning(branchName)) ELSE stdout
    /\ fcommits' = IF \E n \in args.max : n # 0
                   THEN Take(history, CHOOSE n \in args.max : TRUE)
                   ELSE history
    /\ pc' = "tags"
    /\ UNCHANGED <<history, repoTags, branchName, args, outFile, cacheFile, tagmap,
                   current_tag, changeLogMessages, next_commit, exit_code,
                   opened, run>>

TagDate(t) == history[t.commit].committed_date

\* sorted(..., key=date, reverse=True): stable, newest date first
RECURSIVE SortedByDateDesc(_)
SortedByDateDesc(tags) ==
    IF tags = <<>> THEN <<>>
    ELSE LET q == SortedByDateDesc(SubSeq(tags, 1, Len(tags) - 1))
             t == tags[Len(tags)]
             k == Cardinality({a \in 1..Len(q) : TagDate(q[a]) >= TagDate(t)})
         IN  SubSeq(q, 1, k) \o <<t>> \o SubSeq(q, k + 1, Len(q))

\* for tag in s: tagmap[tag.commit.hexsha] = tag
RECURSIVE StoreAll(_, _)
StoreAll(tm, s) ==
    IF s = <<>> THEN tm
    ELSE StoreAll((history[s[1].commit].hexsha :> s[1]) @@ tm, Tail(s))

\* lines 157-160
StoreTagInfo ==
    /\ pc = "tags"
    /\ tagmap' = StoreAll(tagmap, SortedByDateDesc(repoTags))
    /\ pc' = "check"
    /\ UNCHANGED <<history, repoTags, branchName, args, outFile, cacheFile, stdout, fcommits,
                   current_tag, changeLogMessages, next_commit, exit_code,
                   opened, run>>

ErrLatest == [text |-> "error: latest commit needs to be tagged"]

\* lines 162-164
CheckLatestTag_NoExit ==
    /\ pc = "check"
    /\ current_tag' = get_tag_current(tagmap, current_tag, fcommits[1].hexsha)
    /\ pc' = "loop"
    /\ UNCHANGED <<stdout, exit_code>>
    /\ UNCHANGED <<history, repoTags, branchName, args, outFile, cacheFile, fcommits, tagmap,
                   changeLogMessages, next_commit, opened, run>>

CheckLatestTag ==
    /\ pc = "check"
    /\ current_tag' = get_tag_current(tagmap, current_tag, fcommits[1].hexsha)
    /\ IF get_tag(tagmap, fcommits[1].hexsha) = None
       THEN /\ stdout' = Append(stdout, ErrLatest)
            /\ exit_code' = {1}
            /\ pc' = "exit"
       ELSE /\ pc' = "loop"
            /\ UNCHANGED <<stdout, exit_code>>
    /\ UNCHANGED <<history, repoTags, branchName, args, outFile, cacheFile, fcommits, tagmap,
                   changeLogMessages, next_commit, opened, run>>

Traceback == [text |-> "Traceback (most recent call last)"]

\* line 171 with ChangeLogMsg.__str__ (lines 98-99)
Printed(entry) ==
    [text |-> "#{} {} {} ({}) [{}]",
     values |-> <<entry.signature, entry.version, entry.msg, entry.date, entry.type>>]

\* lines 173-199: the list of groups after the entry is added. The caller
\* has excluded the case where elem["commits"] raises KeyError.
AddToGroups_AlwaysNew(groups, e) ==
    Append(groups, [version |-> e.version, date |-> e.date,
                    commits |-> (e.type :> <<e>>)])

AddToGroups_Prepend(groups, e) ==
    LET last_elem == IF Len(groups) # 0 THEN groups[Len(groups)] ELSE [commits |-> <<>>]
        ver == IF Len(groups) # 0 THEN last_elem.version ELSE <<>>
    IN  IF ver = e.version
        THEN LET commits == IF e.type \in DOMAIN last_elem.commits
                            THEN last_elem.commits[e.type] ELSE <<>>
                 elem == [last_elem EXCEPT
                             !.commits = (e.type :> (<<e>> \o commits)) @@ @]
             IN  [groups EXCEPT ![Len(groups)] = elem]
        ELSE <<[version |-> e.version, date |-> e.date,
                commits |-> (e.type :> <<e>>)]>> \o groups

AddToGroups(groups, e) ==
    LET last_elem == IF Len(groups) # 0 THEN groups[Len(groups)] ELSE [commits |-> <<>>]
        ver == IF Len(groups) # 0 THEN last_elem.version ELSE <<>>
    IN  IF ver = e.version
        THEN LET commits == IF e.type \in DOMAIN last_elem.commits
                            THEN last_elem.commits[e.type] ELSE <<>>
                 elem == [last_elem EXCEPT
                             !.commits = (e.type :> Append(commits, e)) @@ @]
             IN  [groups EXCEPT ![Len(groups)] = elem]
        ELSE Append(groups, [version |-> e.version, date |-> e.date,
                             commits |-> (e.type :> <<e>>)])

\* lines 182-183
NoGroupVersion(no_group, e) ==
    IF no_group THEN [e EXCEPT !.version = e.signature] ELSE e

\* lines 167-199, one pass of the loop. An exception (tag.name of None in
\* _setVersion, or elem["commits"] of the empty last_elem) ends the process.
ProcessCommit ==
    /\ pc = "loop"
    /\ next_commit <= Len(fcommits)
    /\ LET commit == fcommits[next_commit]
           cur == get_tag_current(tagmap, current_tag, commit.hexsha)
           made == ChangeLogMsg(commit, next_commit, tagmap, cur)
           changeLogMsg == NoGroupVersion(args.no_group, made)
       IN  /\ current_tag' = cur
           /\ IF \/ made = None
                 \/ (Len(changeLogMessages) = 0 /\ changeLogMsg.version = <<>>)
              THEN /\ stdout' = Append(IF made # None /\ args.verbose
                                        THEN Append(stdout, Printed(made))
                                        ELSE stdout,
                                        Traceback)
                   /\ exit_code' = {1}
                   /\ pc' = "exit"
                   /\ UNCHANGED <<changeLogMessages, next_commit>>
              ELSE /\ stdout' = IF args.verbose
                                THEN Append(stdout, Printed(made)) ELSE stdout
                   /\ changeLogMessages' = AddToGroups(changeLogMessages, changeLogMsg)
                   /\ next_commit' = next_commit + 1
                   /\ UNCHANGED <<exit_code, pc>>
    /\ UNCHANGED <<history, repoTags, branchName, args, outFile, cacheFile, fcommits, tagmap,
                   opened, run>>

---------------------------------------------------------------------------
(* createChangeLog: the file as the sequence of the f_cl.write calls *)

Header(group) == [kind |-> "header", version |-> group.version, date |-> group.date]
TypeLine(commit_type) == [kind |-> "type", name |-> commit_type]
Bullet(commit) == [kind |-> "bullet", msg |-> commit.msg, id |-> commit.id]
HashNote(commit) == [kind |-> "hash", signature |-> commit.signature]
NewLine == [kind |-> "newline"]

\* lines 132-136
RECURSIVE WriteCommits(_, _)
WriteCommits(commits, detailed) ==
    IF commits = <<>> THEN <<>>
    ELSE <<Bullet(commits[1])>>
         \o (IF detailed THEN <<HashNote(commits[1])>> ELSE <<>>)
         \o <<NewLine>>
         \o WriteCommits(Tail(commits), detailed)

\* lines 130-136, the keys of group["commits"] taken in the order keys
RECURSIVE WriteTypes_NoDefaultHeader(_, _, _)
WriteTypes_NoDefaultHeader(group, keys, detailed) ==
    IF keys = <<>> THEN <<>>
    ELSE (IF keys[1] = "UNCATEGORIZED" THEN <<>> ELSE <<TypeLine(keys[1])>>)
         \o WriteCommits(group.commits[keys[1]], detailed)
         \o WriteTypes_NoDefaultHeader(group, Tail(keys), detailed)

RECURSIVE WriteTypes(_, _, _)
WriteTypes(group, keys, detailed) ==
    IF keys = <<>> THEN <<>>
    ELSE <<TypeLine(keys[1])>>
         \o WriteCommits(group.commits[keys[1]], detailed)
         \o WriteTypes(group, Tail(keys), detailed)

\* The orders in which a dict with the keys S can be iterated.
RECURSIVE Orders(_)
Orders(S) ==
    IF S = {} THEN {<<>>}
    ELSE UNION {{<<x>> \o q : q \in Orders(S \ {x})} : x \in S}

\* lines 128-136: what the loop over the groups can write
RECURSIVE WriteGroups(_, _)
WriteGroups(groups, detailed) ==
    IF groups = <<>> THEN {<<>>}
    ELSE {<<Header(groups[1])>> \o WriteTypes(groups[1], keys, detailed) \o rest :
             keys \in Orders(DOMAIN groups[1].commits),
             rest \in WriteGroups(Tail(groups), detailed)}

\* line 201 and lines 126-136, then the end of the script
CreateChangeLog ==
    /\ pc = "loop"
    /\ next_commit > Len(fcommits)
    /\ opened' = TRUE
    /\ \E writes \in WriteGroups(changeLogMessages, args.detailed) :
           outFile' = File(writes)
    /\ exit_code' = {0}
    /\ pc' = "exit"
    /\ UNCHANGED <<history, repoTags, branchName, args, cacheFile, stdout, fcommits, tagmap,
                   current_tag, changeLogMessages, next_commit, run>>

\* The user runs the script again on the same repository, with the same
\* command line.
RunAgain ==
    /\ pc = "exit"
    /\ run = 1
    /\ run' = 2
    /\ stdout' = <<>>
    /\ pc' = "read"
    /\ fcommits' = <<>>
    /\ tagmap' = [h \in {} |-> None]
    /\ current_tag' = None
    /\ changeLogMessages' = <<>>
    /\ next_commit' = 1
    /\ exit_code' = {}
    /\ opened' = FALSE
    /\ UNCHANGED <<history, repoTags, branchName, args, outFile, cacheFile>>

Next ==
    \/ ReadCommits
    \/ StoreTagInfo
    \/ CheckLatestTag
    \/ ProcessCommit
    \/ CreateChangeLog

Spec == Init /\ [][Next]_vars

NextTwice == Next \/ RunAgain

SpecTwice == Init /\ [][NextTwice]_vars

---------------------------------------------------------------------------
(* The classifier on its own: one commit, its message drawn from a set of   *)
(* words in three spellings, with and without text around them.            *)

Upper(s) ==
    [k \in 1..Len(s) |->
        IF \E u \in DOMAIN UpperToLower : UpperToLower[u] = s[k]
        THEN CHOOSE u \in DOMAIN UpperToLower : UpperToLower[u] = s[k]
        ELSE s[k]]

Capitalized(s) == IF s = <<>> THEN s ELSE Upper(SubSeq(s, 1, 1)) \o Tail(s)

Words ==
    {s_add, s_remove, s_delete, s_fix, s_bugfix, s_change, s_update,
     s_deprecate, s_improve,
     <<"a", "d">>, <<"b", "u", "g">>, <<"m", "i", "s", "c">>, <<>>}

Leads == {<<>>, <<" ">>, <<"\n", "\t">>, <<"x">>, <<"r", "e">>}

Tails ==
    {<<>>, <<"e", "d">>, <<" ", "d", "o", "c", "s", "\n">>,
     <<" ", "(", "v", "1", ".", "2", ".", "3", ")">>}

ClassifyMessages ==
    {lead \o word \o tail :
        lead \in Leads,
        word \in UNION {{w, Capitalized(w), Upper(w)} : w \in Words},
        tail \in Tails}

InitClassify ==
    /\ \E m \in ClassifyMessages :
          history = <<[hexsha |-> HexB, message |-> m, committed_date |-> 0]>>
    /\ repoTags \in TagLists(1)
    /\ branchName = "master"
    /\ args = [max |-> {}, detailed |-> FALSE, no_group |-> FALSE, verbose |-> TRUE]
    /\ outFile = NoFile
    /\ cacheFile = NoFile
    /\ run = 1
    /\ ProcessInit

SpecClassify == InitClassify /\ [][Next]_vars

---------------------------------------------------------------------------
(* What the claims speak of *)

Range(q) == {q[k] : k \in 1..Len(q)}

\* the entries of a group, and of the whole list
GroupEntries(g) == UNION {Range(g.commits[t]) : t \in DOMAIN g.commits}
GroupIds(g) == {e.id : e \in GroupEntries(g)}
AllEntries == UNION {GroupEntries(g) : g \in Range(changeLogMessages)}

\* the tags that point at the commit at position k of the history, and the
\* nearest position at or before k that has one (0 when there is none)
TagsAt(k) == {t \in Range(repoTags) : t.commit = k}
NearestTagged(k) ==
    LET tagged == {j \in 1..k : TagsAt(j) # {}}
    IN  IF tagged = {} THEN 0 ELSE MaxOf(tagged)

Strip(s) == LStrip(RStrip(s))
StartsWith(s, p) == Len(s) >= Len(p) /\ SubSeq(s, 1, Len(p)) = p

Succeeded == pc = "exit" /\ exit_code = {0}

---------------------------------------------------------------------------
(* C1 *)

\* The newest scanned commit has no tag and no inline version marker, and
\* --no-group is not given.
C1_Unversioned ==
    /\ TagsAt(1) = {}
    /\ VersionParseFallback(Strip(history[1].message)) = None
    /\ ~args.no_group

\* C1: if the newest scanned commit has no tag and no inline version, and
\* --no-group is absent, the run ends with exit status 1 before any group is
\* built and before the output file is opened: the loop is never entered,
\* the list of groups stays empty and the output file is as it was.
C1_FailsBeforeOutput ==
    C1_Unversioned =>
        /\ pc \in {"read", "tags", "check", "exit"}
        /\ pc = "exit" =>
              /\ exit_code = {1}
              /\ stdout \in {<<ErrLatest>>, <<Warning(branchName), ErrLatest>>}
        /\ changeLogMessages = <<>>
        /\ ~opened
        /\ outFile \in {NoFile, OldContent}

C1_Witness ==
    /\ C1_Unversioned
    /\ pc = "exit"
    /\ exit_code = {1}
    /\ outFile = OldContent
    /\ Len(fcommits) > 1

---------------------------------------------------------------------------
(* C2 *)

\* The example of the specification: C1 (tag v2.0), C2 (no tag, "Update
\* docs"), C3 (tag v1.0), all three scanned, without --no-group.
C2_Example ==
    /\ Len(history) = 3
    /\ history[2].message = MsgUpdateDocs
    /\ repoTags = <<[name |-> V10, commit |-> 3], [name |-> V20, commit |-> 1]>>
    /\ args.max \in {{}, {0}}
    /\ ~args.no_group

GroupSummary(g) == [version |-> g.version, ids |-> GroupIds(g)]

\* C2: without --no-group and with the newest commit tagged, every entry made
\* carries the name of a tag of its own commit if it has one, and otherwise
\* of the nearest tagged commit before it in the iteration; every commit the
\* loop has passed has its entry; and the example ends with exactly the
\* groups [v2.0: C1, C2], [v1.0: C3].
C2_NearestPrecedingTag ==
    (~args.no_group /\ TagsAt(1) # {}) =>
        /\ \A e \in AllEntries :
              e.version \in {t.name : t \in TagsAt(NearestTagged(e.id))}
        /\ pc \in {"loop", "exit"} =>
              {e.id : e \in AllEntries} = 1..(next_commit - 1)
        /\ (C2_Example /\ pc = "exit") =>
              [k \in 1..Len(changeLogMessages) |->
                  GroupSummary(changeLogMessages[k])]
                = <<[version |-> V20, ids |-> {1, 2}],
                    [version |-> V10, ids |-> {3}]>>

C2_Witness ==
    /\ C2_Example
    /\ Succeeded
    /\ \E e \in AllEntries : TagsAt(e.id) = {} /\ e.version = V20

---------------------------------------------------------------------------
(* C3 *)

IsRun(S) == S # {} /\ S = MinOf(S)..MaxOf(S)

\* C3: at every point of the loop the list of groups is the input cut where
\* the resolved version changes: every entry sits in a group of its own
\* version, every group is a contiguous run of the input, the groups follow
\* one another in the input with no commit left out, and no two adjacent
\* groups carry the same version.
C3_AdjacentMerge ==
    LET groups == changeLogMessages
    IN  /\ \A k \in 1..Len(groups) :
              /\ IsRun(GroupIds(groups[k]))
              /\ \A e \in GroupEntries(groups[k]) : e.version = groups[k].version
              /\ Cardinality(GroupEntries(groups[k])) = Cardinality(GroupIds(groups[k]))
        /\ \A k \in 1..(Len(groups) - 1) :
              /\ groups[k].version # groups[k + 1].version
              /\ MinOf(GroupIds(groups[k + 1])) = MaxOf(GroupIds(groups[k])) + 1
        /\ Len(groups) > 0 =>
              /\ MinOf(GroupIds(groups[1])) = 1
              /\ MaxOf(GroupIds(groups[Len(groups)])) = next_commit - 1

C3_Witness ==
    /\ Succeeded
    /\ Len(changeLogMessages) = 2
    /\ Cardinality(GroupIds(changeLogMessages[1])) = 2
    /\ Len(fcommits) = 3

---------------------------------------------------------------------------
(* C4 *)

IsHeader(w) == w.kind = "header"
Headers(writes) == SelectSeq(writes, IsHeader)

Increasing(q) == \A a, b \in 1..Len(q) : a < b => q[a].id < q[b].id

\* One step leaves every group in its place: the list only grows at its end,
\* and only its last group takes further entries.
C4_OnlyAppended ==
    /\ Len(changeLogMessages') >= Len(changeLogMessages)
    /\ \A k \in 1..Len(changeLogMessages) :
          /\ changeLogMessages'[k].version = changeLogMessages[k].version
          /\ changeLogMessages'[k].date = changeLogMessages[k].date
          /\ GroupIds(changeLogMessages[k]) \subseteq GroupIds(changeLogMessages'[k])
          /\ k < Len(changeLogMessages) => changeLogMessages'[k] = changeLogMessages[k]

\* The groups stand in the order of the input: a group's label and date are
\* those of its earliest commit, every commit of a group comes before every
\* commit of the groups after it, each bucket holds its entries in input
\* order, and the file written has the groups' headers in the list's order
\* and, under one sub-header, the bullets in input order.
C4_InputOrder ==
    LET groups == changeLogMessages
    IN  /\ \A k \in 1..Len(groups) :
              /\ \E e \in GroupEntries(groups[k]) :
                    /\ e.id = MinOf(GroupIds(groups[k]))
                    /\ e.version = groups[k].version
                    /\ e.date = groups[k].date
              /\ \A t \in DOMAIN groups[k].commits : Increasing(groups[k].commits[t])
        /\ \A k, l \in 1..Len(groups) :
              k < l => MaxOf(GroupIds(groups[k])) < MinOf(GroupIds(groups[l]))
        /\ opened =>
              /\ Len(Headers(outFile.writes)) = Len(groups)
              /\ \A k \in 1..Len(groups) :
                    /\ Headers(outFile.writes)[k].version = groups[k].version
                    /\ Headers(outFile.writes)[k].date = groups[k].date
              /\ \A a, b \in 1..Len(outFile.writes) :
                    (/\ a < b
                     /\ outFile.writes[a].kind = "bullet"
                     /\ outFile.writes[b].kind = "bullet"
                     /\ \A c \in a..b : outFile.writes[c].kind \notin {"header", "type"})
                    => outFile.writes[a].id < outFile.writes[b].id

\* C4: the groups are only ever appended, never reordered or removed, so the
\* changelog's groups are in the order in which their versions are first met
\* in the newest-first input, and within a bucket the entries are in input
\* order.
C4_EncounterOrder == [][C4_OnlyAppended /\ C4_InputOrder']_vars

C4_Witness ==
    /\ Succeeded
    /\ opened
    /\ Len(changeLogMessages) >= 2
    /\ \E k \in 1..Len(changeLogMessages) :
          \E t \in DOMAIN changeLogMessages[k].commits :
             Len(changeLogMessages[k].commits[t]) >= 2

---------------------------------------------------------------------------
(* C5 *)

\* The category of a lower-cased text by its prefix, in the priority order.
PrefixCategory(m) ==
    IF StartsWith(m, s_add) THEN "ADDED"
    ELSE IF StartsWith(m, s_remove) \/ StartsWith(m, s_delete) THEN "REMOVED"
    ELSE IF StartsWith(m, s_fix) \/ StartsWith(m, s_bugfix) THEN "FIXED"
    ELSE IF StartsWith(m, s_change) \/ StartsWith(m, s_update) THEN "CHANGED"
    ELSE IF StartsWith(m, s_deprecate) THEN "DEPRECATED"
    ELSE IF StartsWith(m, s_improve) THEN "IMPROVED"
    ELSE "UNCATEGORIZED"

---------------------------------------------------------------------------
(* C6 *)

\* C6: an entry whose message ends with an inline version marker "(vX.Y.Z)"
\* has the marker stripped from its message and X.Y.Z as its version; "Fix
\* null pointer bug (v1.2.3)" gives FIXED, "Fix null pointer bug", "1.2.3".
C6_InlineVersionExtracted ==
    \A e \in AllEntries :
        LET parsed == VersionParseFallback(Strip(fcommits[e.id].message))
        IN  /\ parsed # None => e.msg = parsed.msg /\ e.version = parsed.version
            /\ fcommits[e.id].message = MsgFixNull =>
                  /\ e.type = "FIXED"
                  /\ e.msg = SubSeq(MsgFixNull, 1, 20)
                  /\ e.version = <<"1", ".", "2", ".", "3">>

---------------------------------------------------------------------------
(* C7 *)

\* C7: with --no-group too, a commit that a tag points at is labelled with
\* that tag's name, and the short hash labels only a commit whose version
\* no tag and no inline marker gives.
C7_TagBeforeHash ==
    args.no_group =>
        \A e \in AllEntries :
            /\ TagsAt(e.id) # {} => e.version \in {t.name : t \in TagsAt(e.id)}
            /\ e.version = e.signature =>
                  /\ NearestTagged(e.id) = 0
                  /\ VersionParseFallback(Strip(fcommits[e.id].message)) = None

---------------------------------------------------------------------------
(* C8 *)

UpToDate == [text |-> "already up to date"]

\* C8: a successful run leaves the hash of the newest processed commit in
\* the cache file; a second run on the same history finds it on the newest
\* commit, builds no group, prints "already up to date" and does not open
\* the output file.
C8_SecondRunIsNoOp ==
    (run = 2 /\ pc = "exit" /\ TagsAt(1) # {}) =>
        /\ cacheFile = File(<<fcommits[1].hexsha>>)
        /\ changeLogMessages = <<>>
        /\ UpToDate \in Range(stdout)
        /\ ~opened

---------------------------------------------------------------------------
(* C9 *)

\* the header and the sub-header a write at position p stands under
HeaderAt(writes, p) == MaxOf({q \in 1..p : writes[q].kind = "header"})
TypeAt(writes, p) == MaxOf({q \in 1..p : writes[q].kind = "type"})
HeaderCount(writes, p) == Cardinality({q \in 1..p : writes[q].kind = "header"})

\* the writes come as: header, then per category one sub-header followed by
\* its bullets, each bullet closed by a newline, with the hash before the
\* newline exactly in detail mode
C9_Layout(writes) ==
    LET n == Len(writes)
    IN  /\ n > 0
        /\ writes[1].kind = "header"
        /\ writes[n].kind = "newline"
        /\ \A p \in 1..n :
              /\ writes[p].kind \in {"header", "type", "bullet", "hash", "newline"}
              /\ writes[p].kind = "header" => writes[p + 1].kind = "type"
              /\ writes[p].kind = "type" => writes[p + 1].kind = "bullet"
              /\ writes[p].kind = "bullet" =>
                    writes[p + 1].kind = IF args.detailed THEN "hash" ELSE "newline"
              /\ writes[p].kind = "hash" =>
                    /\ args.detailed
                    /\ writes[p - 1].kind = "bullet"
                    /\ writes[p + 1].kind = "newline"
              /\ (writes[p].kind = "newline" /\ p < n) =>
                    writes[p + 1].kind \in {"bullet", "type", "header"}
        /\ \A p, q \in 1..n :
              (/\ p < q
               /\ writes[p].kind = "type"
               /\ writes[q].kind = "type"
               /\ HeaderAt(writes, p) = HeaderAt(writes, q))
              => writes[p].name # writes[q].name

---------------------------------------------------------------------------
(* C10 *)

\* C10: once the newest commit has passed the tag check nothing fails: the
\* current tag is set whenever a version is resolved, every commit the loop
\* has passed has an entry with a version label and a category (the
\* UNCATEGORIZED one when no prefix matches), no exception ends the run, and
\* the run ends only past the last commit, with the file written and exit
\* status 0.
C10_NoFailureAfterCheck ==
    (pc = "loop" \/ (pc = "exit" /\ TagsAt(1) # {})) =>
        /\ current_tag # None
        /\ Traceback \notin Range(stdout)
        /\ ErrLatest \notin Range(stdout)
        /\ {e.id : e \in AllEntries} = 1..(next_commit - 1)
        /\ \A e \in AllEntries :
              /\ Len(e.version) > 0
              /\ e.type \in COMMIT_TYPE
              /\ PrefixCategory(Lower(e.msg)) = "UNCATEGORIZED" => e.type = "UNCATEGORIZED"
        /\ pc = "loop" => next_commit <= Len(fcommits) + 1
        /\ pc = "exit" => exit_code = {0} /\ opened /\ next_commit = Len(fcommits) + 1

C10_Witness ==
    /\ Succeeded
    /\ \E e \in AllEntries : e.id > 1 /\ TagsAt(e.id) = {} /\ e.type = "UNCATEGORIZED"
    /\ \E e \in AllEntries : e.id > 1 /\ TagsAt(e.id) # {}

=============================================================================
